---- MODULE Spec2Model ----
(***************************************************************************)
(* Model of IntegratorMyPeriodicBrownian::integrate()                      *)
(* (integrator_my_periodic_brownian.cpp).                                  *)
(*                                                                         *)
(* Real numbers are fixed-point integers in units of 1/Scale.  The random  *)
(* number generator is a seeded, deterministic stream that is read by      *)
(* position; the constraint is the flat plane z = 0.                       *)
(*                                                                         *)
(* SpecSoft models PairSoftPotential (pair_soft_potential.hpp): its        *)
(* constructor and set_pair_parameters.                                    *)
(***************************************************************************)
EXTENDS Integers, Sequences, FiniteSets, TLC

\* ---------------------------------------------------------------- bounds
MaxN == 2          \* small groups hold 1..MaxN particles
MaxSeed == 1       \* RNG seeds 0..MaxSeed
MaxTypes == 2      \* particle types 1..MaxTypes
MaxCalls == 2      \* calls of set_pair_parameters on one potential

\* ------------------------------------------------------- fixed-point reals
Scale == 10
NaN == -1          \* result of sqrt of a negative argument

Abs(a) == IF a < 0 THEN -a ELSE a

\* product of two fixed-point numbers, rounded towards zero
Mul(a, b) == IF a * b < 0 THEN -((-(a * b)) \div Scale) ELSE (a * b) \div Scale

\* std::sqrt on fixed-point numbers: NaN for a negative argument
Sqrt(a) ==
  IF a < 0 THEN NaN
  ELSE CHOOSE s \in 0..(a * Scale + 1) :
         s * s <= a * Scale /\ (s + 1) * (s + 1) > a * Scale

Zero3 == <<0, 0, 0>>
VAdd(u, w) == <<u[1] + w[1], u[2] + w[2], u[3] + w[3]>>
VScale(c, u) == <<Mul(c, u[1]), Mul(c, u[2]), Mul(c, u[3])>>
VNeg(u) == <<-u[1], -u[2], -u[3]>>

\* ------------------------------------------------- hard-coded ghost layout
length_period == 30 * Scale
bpacking == 2
x_lenghth == 100
internal_index_start == 0
internal_index_end == (2904 \div 3) - 1
up_internal_index_start == internal_index_end + 1
up_internal_index_end ==
  up_internal_index_start + (internal_index_end - internal_index_start)
down_internal_index_start == up_internal_index_end + 1
down_internal_index_end ==
  down_internal_index_start + (internal_index_end - internal_index_start)
right_boundary_start0 == internal_index_end + (length_period \div Scale) * bpacking
right_boundary_end0 == internal_index_end + 2 * (length_period \div Scale) * bpacking
left_boundary_start0 ==
  internal_index_end + 4 * (length_period \div Scale) * bpacking + 2 * x_lenghth * bpacking
left_boundary_end0 ==
  internal_index_end + 5 * (length_period \div Scale) * bpacking + 2 * x_lenghth * bpacking
boundary_periodic_update_region == 30

\* smallest group for which every subscript of the periodic block is valid
LayoutSize == down_internal_index_end + 1

\* ------------------------------------------------------------------ state
VARIABLES
  N,              \* size of the group
  m_nematic,      \* nematic mode
  m_velocity,     \* velocity tracking
  m_potential,    \* TRUE iff a pair potential is configured
  m_align,        \* TRUE iff an alignment is configured
  m_constrainer,  \* TRUE iff the constraint operator is set
  m_v0, m_mu, m_mur, m_dt, m_tau, m_stoch_coeff,
  temp,           \* value the temperature schedule returns for this step
  seed,           \* seed of the random-number stream
  field,          \* which force/torque field the evaluators produce
  pc,             \* position in integrate()
  i,              \* loop index
  T, B, sqrt_dt,  \* locals of integrate()
  tmpl,           \* which initial state each particle had at entry
  P,              \* particle store, indexed 0..N-1
  rngPos,         \* number of samples drawn from m_rng so far
  sqrt_args,      \* arguments handed to sqrt, in order
  trace,          \* calls on the system and the evaluators, in order
  draws,          \* per particle: samples consumed and what for
  calls,          \* per particle: constraint calls, in order
  unprojected,    \* particles whose position was written after its last enforce
  m_k, m_a,           \* PairSoftPotential: global strength and range
  m_pair_params,      \* PairSoftPotential: SoftParameters per pair of types
  m_has_pair_params,  \* PairPotential: pair parameters have been set
  pair_param,         \* argument of the last call of set_pair_parameters
  soft_pc,            \* how that call ended
  pair_params_before, \* m_pair_params when that call started
  has_before,         \* m_has_pair_params when that call started
  ncalls              \* number of calls of set_pair_parameters so far

inputs == <<N, m_nematic, m_velocity, m_potential, m_align, m_constrainer,
            m_v0, m_mu, m_mur, m_dt, m_tau, m_stoch_coeff, temp, seed, field,
            tmpl>>
soft_vars == <<m_k, m_a, m_pair_params, m_has_pair_params, pair_param, soft_pc,
               pair_params_before, has_before, ncalls>>
\* what integrate() never writes: its inputs and the pair potential's object
params == <<inputs, soft_vars>>
locals == <<T, B, sqrt_dt>>
vars == <<params, pc, i, locals, P, rngPos, sqrt_args, trace, draws, calls,
          unprojected>>

Idx == 0..(N - 1)

\* ------------------------------------------------- external collaborators
\* m_rng: sample number pos of the stream with the given seed, in 0..Scale-1
Raw(s, pos) == ((s + 1) * (pos + 1) * 7 + pos * pos) % Scale
\* RNG::drnd(): uniform in [0,1)
drnd(s, pos) == Raw(s, pos)
\* RNG::gauss_rng(1.0): a signed sample
gauss_rng(s, pos) == (Raw(s, pos) - 4) * 5

\* Constrainer::enforce on the plane z = 0
enforce(p) == [p EXCEPT !.r = <<p.r[1], p.r[2], 0>>]
\* Constrainer::project_torque: component about the normal at p's position
project_torque(p) == IF p.r[3] = 0 THEN p.tau[3] ELSE 0
\* rotation of a tangent vector about the normal: a quarter turn in the
\* direction of the angle, nothing for a zero angle
Rotate(u, dtheta) ==
  IF dtheta = 0 THEN u
  ELSE IF dtheta > 0 THEN <<-u[2], u[1], u[3]>>
  ELSE <<u[2], -u[1], u[3]>>
rotate_director(p, dtheta) == [p EXCEPT !.n = Rotate(p.n, dtheta)]
rotate_velocity(p, dtheta) == [p EXCEPT !.v = Rotate(p.v, dtheta)]

\* force the pair potential adds to particle j, torque the alignment adds
FieldForce(k, j) ==
  IF k = 0 THEN <<Scale, 0, 0>>
  ELSE IF j % 2 = 0 THEN <<0, 2 * Scale, 0>> ELSE <<0, -2 * Scale, 0>>
FieldTorque(k, j) ==
  IF k = 0 THEN <<0, 0, Scale>>
  ELSE IF j % 2 = 0 THEN <<0, 0, -Scale>> ELSE Zero3

\* ------------------------------------------------- pair soft potential
\* pairs_type: a map from keys to strings; a key is present iff it is in
\* the DOMAIN.  The strings are numerals
Numerals == {"1", "2", "3", "0.5"}
\* lexical_cast<double>: the fixed-point value of a numeral (lines 68, 78, 123, 133)
LexicalCastDouble(str) ==
  CASE str = "1" -> Scale
    [] str = "2" -> 2 * Scale
    [] str = "3" -> 3 * Scale
    [] str = "0.5" -> Scale \div 2
\* lexical_cast<int> (lines 117-118)
LexicalCastInt(str) ==
  CASE str = "1" -> 1
    [] str = "2" -> 2
    [] str = "3" -> 3

\* m_system->get_ntypes()
ntypes == MaxTypes
TypeIdx == 0..(ntypes - 1)
\* numerals that name a type of the system
TypeNumerals == {str \in {"1", "2", "3"} : LexicalCastInt(str) \in 1..ntypes}

\* maps with the given keys present, each with one of its values
Maps(keys, values) ==
  UNION { {f \in [D -> Numerals] : \A key \in D : f[key] \in values[key]} :
          D \in SUBSET keys }

\* values a double that was never initialised may hold
Indeterminate == {0, 7 * Scale}

\* lines 57-92: the potential after construction with the map param.  The
\* constructor writes the k of every pair and leaves every a uninitialised;
\* the flag m_has_pair_params belongs to the base class PairPotential, taken
\* here to construct it cleared
Constructed(param, garbage) ==
  /\ m_k = IF "k" \in DOMAIN param THEN LexicalCastDouble(param["k"]) ELSE Scale
  /\ m_a = IF "a" \in DOMAIN param THEN LexicalCastDouble(param["a"]) ELSE 2 * Scale
  /\ m_pair_params = [t1 \in TypeIdx |-> [t2 \in TypeIdx |->
                        [k |-> m_k, a |-> garbage[t1][t2]]]]
  /\ m_has_pair_params = FALSE
  /\ pair_param = << >>
  /\ soft_pc = "constructed"
  /\ pair_params_before = m_pair_params
  /\ has_before = FALSE
  /\ ncalls = 0

\* arguments of the constructor and of set_pair_parameters
ConstructorInputs == Maps({"k", "a"}, [k |-> {"3"}, a |-> {"1"}])
PairParamInputs ==
  Maps({"type_1", "type_2", "k", "a"},
       [type_1 |-> TypeNumerals, type_2 |-> TypeNumerals,
        k |-> {"0.5"}, a |-> {"2", "3"}])

\* lines 142-147: the four assignments, all of them to the member k
Stored(Q, type_1, type_2, param) ==
  LET q1 == [Q EXCEPT ![type_1 - 1][type_2 - 1].k = param.k]
      q2 == IF type_1 # type_2
            THEN [q1 EXCEPT ![type_2 - 1][type_1 - 1].k = param.k] ELSE q1
      q3 == [q2 EXCEPT ![type_1 - 1][type_2 - 1].k = param.a]
  IN  IF type_1 # type_2
      THEN [q3 EXCEPT ![type_2 - 1][type_1 - 1].k = param.a] ELSE q3

\* lines 102-150: PairSoftPotential::set_pair_parameters
SetPairParameters ==
  /\ ncalls < MaxCalls
  /\ \E pp \in PairParamInputs :
       /\ pair_param' = pp
       /\ IF "type_1" \notin DOMAIN pp \/ "type_2" \notin DOMAIN pp
          THEN /\ soft_pc' = "runtime_error"
               /\ UNCHANGED <<m_pair_params, m_has_pair_params>>
          ELSE /\ m_pair_params' =
                    Stored(m_pair_params,
                           LexicalCastInt(pp["type_1"]), LexicalCastInt(pp["type_2"]),
                           [k |-> IF "k" \in DOMAIN pp
                                  THEN LexicalCastDouble(pp["k"]) ELSE m_k,
                            a |-> IF "a" \in DOMAIN pp
                                  THEN LexicalCastDouble(pp["a"]) ELSE m_a])
               /\ m_has_pair_params' = TRUE
               /\ soft_pc' = "returned"
  /\ pair_params_before' = m_pair_params
  /\ has_before' = m_has_pair_params
  /\ ncalls' = ncalls + 1
  /\ UNCHANGED <<m_k, m_a>>
  /\ UNCHANGED <<inputs, pc, i, locals, P, rngPos, sqrt_args, trace, draws,
                 calls, unprojected>>

\* ----------------------------------------------------------- initial state
\* particle states at entry of integrate(): fresh, or left by earlier steps
Template(k, j) ==
  IF k = 1
  THEN [r |-> Zero3, n |-> <<Scale, 0, 0>>, v |-> Zero3, f |-> Zero3,
        tau |-> Zero3, omega |-> 0, age |-> 0]
  ELSE [r |-> <<Scale, (((j * 7) % 61) - 30) * 5, 0>>, n |-> <<0, -Scale, 0>>,
        v |-> <<0, -Scale, 0>>, f |-> <<0, Scale, 0>>,
        tau |-> <<0, 0, Scale>>, omega |-> Scale, age |-> 5]

SmallConfigs ==
  [N : 1..MaxN, nematic : BOOLEAN, velocity : BOOLEAN, potential : BOOLEAN,
   align : BOOLEAN, constrainer : BOOLEAN, v0 : {Scale}, mu : {0, Scale},
   mur : {Scale}, dt : {1}, tau : {5}, stoch : {0, Scale},
   temp : {-Scale, 0, Scale}, seed : 0..MaxSeed, field : {0, 1}]

InitTemplates(n) ==
  IF n < LayoutSize
  THEN [0..(n - 1) -> 1..2]
  ELSE { [j \in 0..(n - 1) |-> 1 + (j % 2)] }

\* state of particle j at entry of integrate()
P0(j) == Template(tmpl[j], j)

\* entry of integrate() with the inputs c
Entry(c) ==
  /\ N = c.N
  /\ m_nematic = c.nematic /\ m_velocity = c.velocity
  /\ m_potential = c.potential /\ m_align = c.align
  /\ m_constrainer = c.constrainer
  /\ m_v0 = c.v0 /\ m_mu = c.mu /\ m_mur = c.mur /\ m_dt = c.dt
  /\ m_tau = c.tau /\ m_stoch_coeff = c.stoch
  /\ temp = c.temp /\ seed = c.seed /\ field = c.field
  /\ pc = "entry" /\ i = 0
  /\ T = 0 /\ B = 0 /\ sqrt_dt = 0
  /\ tmpl \in InitTemplates(c.N)
  /\ P = [j \in 0..(c.N - 1) |-> Template(tmpl[j], j)]
  /\ rngPos = 0
  /\ sqrt_args = << >>
  /\ trace = << >>
  /\ draws = [j \in 0..(c.N - 1) |-> << >>]
  /\ calls = [j \in 0..(c.N - 1) |-> << >>]
  /\ unprojected = {}

\* a pair potential constructed without parameters and not configured further
SoftDefault == Constructed(<< >>, [t1 \in TypeIdx |-> [t2 \in TypeIdx |-> 0]])

Init ==
  \E c \in SmallConfigs :
    /\ Entry(c)
    /\ SoftDefault

\* the pair potential on its own: constructed, then configured pair by pair,
\* before the first step of the integrator
InitSoft ==
  /\ \E c \in {d \in SmallConfigs :
                 /\ d.N = 1 /\ d.seed = 0 /\ d.field = 0 /\ d.temp = 0
                 /\ d.mu = 0 /\ d.stoch = 0 /\ d.potential /\ d.constrainer
                 /\ ~d.nematic /\ ~d.velocity /\ ~d.align} : Entry(c)
  /\ \E param \in ConstructorInputs, garbage \in [TypeIdx -> [TypeIdx -> Indeterminate]] :
       Constructed(param, garbage)

NextSoft == SetPairParameters

SpecSoft == InitSoft /\ [][NextSoft]_vars

\* ---------------------------------------------------------------- actions
Crashed == pc \in {"aborted", "segfault"}

\* lines 44-50: the locals of integrate()
Enter ==
  /\ pc = "entry"
  /\ T' = temp
  /\ B' = Sqrt(2 * Mul(m_mu, temp))
  /\ sqrt_dt' = Sqrt(m_dt)
  /\ sqrt_args' = sqrt_args \o <<2 * Mul(m_mu, temp), m_dt>>
  /\ pc' = "reset_forces"
  /\ UNCHANGED <<params, i, P, rngPos, trace, draws, calls, unprojected>>

\* reset_forces left out
ResetForcesSkipped ==
  /\ pc = "reset_forces"
  /\ pc' = "reset_torques"
  /\ UNCHANGED <<params, i, locals, P, rngPos, sqrt_args, trace, draws, calls,
                 unprojected>>

\* line 53: m_system->reset_forces()
ResetForces ==
  /\ pc = "reset_forces"
  /\ P' = [j \in Idx |-> [P[j] EXCEPT !.f = Zero3]]
  /\ trace' = Append(trace, "reset_forces")
  /\ pc' = "reset_torques"
  /\ UNCHANGED <<params, i, locals, rngPos, sqrt_args, draws, calls, unprojected>>

\* lines 54-57: m_system->reset_torques(), then the test of m_nematic
ResetTorques ==
  /\ pc = "reset_torques"
  /\ P' = [j \in Idx |-> [P[j] EXCEPT !.tau = Zero3]]
  /\ trace' = Append(trace, "reset_torques")
  /\ pc' = IF m_nematic /\ 0 < N THEN "flip" ELSE "potential"
  /\ i' = 0
  /\ UNCHANGED <<params, locals, rngPos, sqrt_args, draws, calls, unprojected>>

\* flip test with <= in place of <
FlippedInclusive(p, u) ==
  IF u <= m_tau
  THEN IF m_velocity
       THEN [p EXCEPT !.n = VNeg(p.n), !.v = VNeg(p.v)]
       ELSE [p EXCEPT !.n = VNeg(p.n)]
  ELSE p

\* lines 62-69: the particle after its flip attempt with uniform sample u
Flipped(p, u) ==
  IF u < m_tau
  THEN IF m_velocity
       THEN [p EXCEPT !.n = VNeg(p.n), !.v = VNeg(p.v)]
       ELSE [p EXCEPT !.n = VNeg(p.n)]
  ELSE p

\* flip loop that stops one particle early
FlipStepShort ==
  /\ pc = "flip"
  /\ i < N
  /\ P' = [P EXCEPT ![i] = Flipped(P[i], drnd(seed, rngPos))]
  /\ draws' = [draws EXCEPT ![i] = Append(@, [use |-> "flip", pos |-> rngPos])]
  /\ rngPos' = rngPos + 1
  /\ i' = i + 1
  /\ pc' = IF i + 1 < N - 1 THEN "flip" ELSE "potential"
  /\ UNCHANGED <<params, locals, sqrt_args, trace, calls, unprojected>>

\* lines 58-70: one iteration of the flip loop
FlipStep ==
  /\ pc = "flip"
  /\ i < N
  /\ P' = [P EXCEPT ![i] = Flipped(P[i], drnd(seed, rngPos))]
  /\ draws' = [draws EXCEPT ![i] = Append(@, [use |-> "flip", pos |-> rngPos])]
  /\ rngPos' = rngPos + 1
  /\ i' = i + 1
  /\ pc' = IF i + 1 < N THEN "flip" ELSE "potential"
  /\ UNCHANGED <<params, locals, sqrt_args, trace, calls, unprojected>>

\* lines 73-74: m_potential->compute(m_dt), if configured
ComputePotential ==
  /\ pc = "potential"
  /\ IF m_potential
     THEN /\ P' = [j \in Idx |-> [P[j] EXCEPT !.f = VAdd(@, FieldForce(field, j))]]
          /\ trace' = Append(trace, "potential_compute")
     ELSE UNCHANGED <<P, trace>>
  /\ pc' = "align"
  /\ UNCHANGED <<params, i, locals, rngPos, sqrt_args, draws, calls, unprojected>>

\* lines 76-79: m_align->compute(), if configured; start of the particle loop
ComputeAlign ==
  /\ pc = "align"
  /\ IF m_align
     THEN /\ P' = [j \in Idx |-> [P[j] EXCEPT !.tau = VAdd(@, FieldTorque(field, j))]]
          /\ trace' = Append(trace, "align_compute")
     ELSE UNCHANGED <<P, trace>>
  /\ pc' = IF 0 < N THEN "update" ELSE "periodic"
  /\ i' = 0
  /\ UNCHANGED <<params, locals, rngPos, sqrt_args, draws, calls, unprojected>>

\* lines 84-86: deterministic part of the force
Drift(p) == VAdd(VScale(m_v0, p.n), VScale(m_mu, p.f))

\* fr_y computed from the sample of fr_x
KickSamplesReused(pos) == <<pos, pos, pos + 2>>

\* lines 98-100: stream positions of the samples behind fr_x, fr_y, fr_z
KickSamples(pos) == <<pos, pos + 1, pos + 2>>

\* kick computed and multiplied by B also at T = 0
MovedAtZero(p, pos) ==
  LET fd == VAdd(VScale(m_v0, p.n), VScale(m_mu, p.f))
      p1 == [p EXCEPT !.v = fd, !.r = VAdd(p.r, VScale(m_dt, fd))]
      fr == <<Mul(B, gauss_rng(seed, pos)), Mul(B, gauss_rng(seed, pos + 1)),
              Mul(B, gauss_rng(seed, pos + 2))>>
  IN  IF T >= 0
      THEN [p |-> [p1 EXCEPT !.v = VAdd(p1.v, fr),
                             !.r = VAdd(p1.r, VScale(sqrt_dt, fr))],
            draws |-> <<[use |-> "kick_x", pos |-> pos],
                        [use |-> "kick_y", pos |-> pos + 1],
                        [use |-> "kick_z", pos |-> pos + 2]>>]
      ELSE [p |-> p1, draws |-> << >>]

\* lines 84-107: velocity and position update of one particle; the kick is
\* drawn only if T > 0.  Result: the particle and the samples consumed
Moved(p, pos) ==
  LET fd == Drift(p)
      p1 == [p EXCEPT !.v = fd, !.r = VAdd(p.r, VScale(m_dt, fd))]
      ks == KickSamples(pos)
      fr == <<Mul(B, gauss_rng(seed, ks[1])), Mul(B, gauss_rng(seed, ks[2])),
              Mul(B, gauss_rng(seed, ks[3]))>>
  IN  IF T > 0
      THEN [p |-> [p1 EXCEPT !.v = VAdd(p1.v, fr),
                             !.r = VAdd(p1.r, VScale(sqrt_dt, fr))],
            draws |-> <<[use |-> "kick_x", pos |-> ks[1]],
                        [use |-> "kick_y", pos |-> ks[2]],
                        [use |-> "kick_z", pos |-> ks[3]]>>]
      ELSE [p |-> p1, draws |-> << >>]

\* line 114: rotation angle of a particle with angular velocity omega
Dtheta(omega, pos) == Mul(m_dt, omega) + Mul(m_stoch_coeff, gauss_rng(seed, pos))

\* torque projected before the position is enforced
ConstrainedTorqueFirst(p, pos) ==
  LET p2 == [p EXCEPT !.omega = Mul(m_mur, project_torque(p))]
      p3 == enforce(p2)
      dtheta == Dtheta(p3.omega, pos)
      p4 == rotate_director(p3, dtheta)
      p5 == IF m_velocity THEN rotate_velocity(p4, dtheta) ELSE p4
  IN  [p |-> [p5 EXCEPT !.age = @ + m_dt],
       calls |-> <<[op |-> "project_torque", angle |-> 0],
                   [op |-> "enforce", angle |-> 0],
                   [op |-> "rotate_director", angle |-> dtheta]>>
                 \o (IF m_velocity
                     THEN <<[op |-> "rotate_velocity", angle |-> dtheta]>>
                     ELSE << >>),
       draws |-> <<[use |-> "rot", pos |-> pos]>>]

\* lines 109-120: projection, angular velocity, rotation and age.  Result:
\* the particle, the constraint calls made and the sample consumed
Constrained(p, pos) ==
  LET p2 == enforce(p)
      p3 == [p2 EXCEPT !.omega = Mul(m_mur, project_torque(p2))]
      dtheta == Dtheta(p3.omega, pos)
      p4 == rotate_director(p3, dtheta)
      p5 == IF m_velocity THEN rotate_velocity(p4, dtheta) ELSE p4
  IN  [p |-> [p5 EXCEPT !.age = @ + m_dt],
       calls |-> <<[op |-> "enforce", angle |-> 0],
                   [op |-> "project_torque", angle |-> 0],
                   [op |-> "rotate_director", angle |-> dtheta]>>
                 \o (IF m_velocity
                     THEN <<[op |-> "rotate_velocity", angle |-> dtheta]>>
                     ELSE << >>),
       draws |-> <<[use |-> "rot", pos |-> pos]>>]

\* lines 79-121: one iteration of the particle loop
UpdateParticle ==
  /\ pc = "update"
  /\ i < N
  /\ m_constrainer
  /\ LET m == Moved(P[i], rngPos)
         c == Constrained(m.p, rngPos + Len(m.draws))
     IN  /\ P' = [P EXCEPT ![i] = c.p]
         /\ draws' = [draws EXCEPT ![i] = @ \o m.draws \o c.draws]
         /\ calls' = [calls EXCEPT ![i] = @ \o c.calls]
         /\ rngPos' = rngPos + Len(m.draws) + Len(c.draws)
  /\ i' = i + 1
  /\ pc' = IF i + 1 < N THEN "update" ELSE "periodic"
  /\ UNCHANGED <<params, locals, sqrt_args, trace, unprojected>>

\* lines 79-109 with m_constrainer unset: velocity and position are written,
\* then the null pointer is dereferenced; the build either trips the smart
\* pointer's assertion or faults
UpdateParticleNull ==
  /\ pc = "update"
  /\ i < N
  /\ ~m_constrainer
  /\ LET m == Moved(P[i], rngPos)
     IN  /\ P' = [P EXCEPT ![i] = m.p]
         /\ draws' = [draws EXCEPT ![i] = @ \o m.draws]
         /\ rngPos' = rngPos + Len(m.draws)
  /\ unprojected' = unprojected \cup {i}
  /\ pc' \in {"aborted", "segfault"}
  /\ UNCHANGED <<params, i, locals, sqrt_args, trace, calls>>

\* ------------------------------------------------- periodic update block
Min(S) == CHOOSE m \in S : \A k \in S : m <= k

Window(start) ==
  (start - boundary_periodic_update_region)
    ..(start + boundary_periodic_update_region - 1)

\* the tests on p.y of the four boundary scans (lines 149, 160, 176, 187)
PassesTest(scan, y) ==
  CASE scan = "right_start" -> 2 * y <= length_period
    [] scan = "right_end" -> 2 * y <= -length_period
    [] scan = "left_start" -> 2 * y >= -length_period
    [] scan = "left_end" -> 2 * y >= length_period

\* lines 144-192: a scan loop stops at the first particle of its window that
\* passes the test; the subscripts it uses and the value it leaves
ScanHits(start, scan) ==
  {k \in Window(start) \cap Idx : PassesTest(scan, P[k].r[2])}
ScanReads(start, scan) ==
  LET hits == ScanHits(start, scan)
  IN  (start - boundary_periodic_update_region)
        ..(IF hits = {} THEN start + boundary_periodic_update_region - 1
           ELSE Min(hits))
ScanResult(start, scan) ==
  LET hits == ScanHits(start, scan)
  IN  IF hits = {} THEN start ELSE Min(hits)

right_boundary_start == ScanResult(right_boundary_start0, "right_start")
left_boundary_start == ScanResult(left_boundary_start0, "left_start")

\* lines 166-169 and 193-196: a boundary end is moved back by one when the
\* particles at the two boundary indices have the same y
right_boundary_end ==
  LET e == ScanResult(right_boundary_end0, "right_end")
  IN  IF e \in Idx /\ right_boundary_start \in Idx
         /\ Abs(P[right_boundary_start].r[2] - P[e].r[2]) * 1000 < Scale
      THEN e - 1 ELSE e
left_boundary_end ==
  LET e == ScanResult(left_boundary_end0, "left_end")
  IN  IF e \in Idx /\ left_boundary_start \in Idx
         /\ Abs(P[e].r[2] - P[left_boundary_start].r[2]) * 1000 < Scale
      THEN e - 1 ELSE e

UpGhosts == up_internal_index_start..up_internal_index_end
DownGhosts == down_internal_index_start..down_internal_index_end

\* lines 144-234: the indices that subscript the particle list, loop by loop
SubscriptParts ==
  <<ScanReads(right_boundary_start0, "right_start"),
    ScanReads(right_boundary_end0, "right_end"),
    {right_boundary_start, ScanResult(right_boundary_end0, "right_end")},
    ScanReads(left_boundary_start0, "left_start"),
    ScanReads(left_boundary_end0, "left_end"),
    {left_boundary_start, ScanResult(left_boundary_end0, "left_end")},
    {k - (up_internal_index_start - internal_index_start) : k \in UpGhosts},
    UpGhosts,
    {k - (down_internal_index_start - internal_index_start) : k \in DownGhosts},
    DownGhosts>>

\* every subscript of the block is inside the particle list
OutOfRangeParts ==
  LET parts == SubscriptParts
  IN  {m \in 1..Len(parts) : \E k \in parts[m] : k \notin Idx}
SubscriptsInRange == OutOfRangeParts = {}

\* lines 217-219 and 230-232: position of a ghost copied from particle p0
Shifted(p, p0, dy) == [p EXCEPT !.r = <<p0.r[1], p0.r[2] + dy, p0.r[3]>>]

\* lines 210-234: the two ghost-copy loops
GhostCopied(Q) ==
  [j \in DOMAIN Q |->
     IF j \in UpGhosts
     THEN Shifted(Q[j], Q[j - (up_internal_index_start - internal_index_start)],
                  length_period)
     ELSE IF j \in DownGhosts
     THEN Shifted(Q[j], Q[j - (down_internal_index_start - internal_index_start)],
                  -length_period)
     ELSE Q[j]]

\* lines 123-234.  With every subscript inside the particle list the ghosts
\* are overwritten and nothing projects them afterwards.  With a subscript
\* past the end of the list the behaviour is undefined: the process faults,
\* or the stray accesses miss the particle store, or a stray ghost copy
\* lands on a particle of the store
PeriodicUpdate ==
  /\ pc = "periodic"
  /\ IF SubscriptsInRange
     THEN /\ P' = GhostCopied(P)
          /\ unprojected' = unprojected \cup UpGhosts \cup DownGhosts
          /\ pc' = "mesh"
     ELSE \/ /\ pc' = "segfault"
             /\ UNCHANGED <<P, unprojected>>
          \/ /\ pc' = "mesh"
             /\ UNCHANGED <<P, unprojected>>
          \/ /\ pc' = "mesh"
             /\ \E j \in Idx, j0 \in Idx, dy \in {length_period, -length_period} :
                  /\ P' = [P EXCEPT ![j] = Shifted(P[j], P[j0], dy)]
                  /\ unprojected' = unprojected \cup {j}
  /\ UNCHANGED <<params, i, locals, rngPos, sqrt_args, trace, draws, calls>>

\* line 291: m_system->update_mesh()
UpdateMesh ==
  /\ pc = "mesh"
  /\ trace' = Append(trace, "update_mesh")
  /\ pc' = "done"
  /\ UNCHANGED <<params, i, locals, P, rngPos, sqrt_args, draws, calls, unprojected>>

Next ==
  \/ Enter
  \/ ResetForces
  \/ ResetTorques
  \/ FlipStep
  \/ ComputePotential
  \/ ComputeAlign
  \/ UpdateParticle
  \/ UpdateParticleNull
  \/ PeriodicUpdate
  \/ UpdateMesh

Spec == Init /\ [][Next]_vars

\* ------------------------------------- the periodic block on a full layout
\* The hard-coded layout needs a group of at least LayoutSize particles.  The
\* specification below starts where such a group reaches line 123: every
\* particle has gone through lines 53-121.  BlockEntry is that state in
\* closed form; BlockEntryReached states that the step-by-step
\* specification arrives at exactly this state.

\* lines 53-77: particle j after the resets and the evaluators
Evaluated(j) ==
  [P0(j) EXCEPT !.f = IF m_potential THEN FieldForce(field, j) ELSE Zero3,
                !.tau = IF m_align THEN FieldTorque(field, j) ELSE Zero3]

\* lines 58-70: particle j after the flip loop, which draws sample j for it
AfterFlip(j) ==
  IF m_nematic THEN Flipped(Evaluated(j), drnd(seed, j)) ELSE Evaluated(j)

\* lines 96-107: number of samples the kick of one particle consumes
KickLen == IF T > 0 THEN 3 ELSE 0

\* lines 79-121: stream position at which iteration j of the particle loop
\* starts: after the N flip samples and the samples of particles 0..j-1
LoopStart(j) == (IF m_nematic THEN N ELSE 0) + (KickLen + 1) * j

\* lines 84-107 applied to particle j
LoopMoved(j) == Moved(AfterFlip(j), LoopStart(j))

\* lines 109-120 applied to particle j
LoopConstrained(j) == Constrained(LoopMoved(j).p, LoopStart(j) + KickLen)

\* lines 58-121: the samples particle j has consumed when the loop has finished
LoopDraws(j) ==
  (IF m_nematic THEN <<[use |-> "flip", pos |-> j]>> ELSE << >>)
    \o LoopMoved(j).draws \o LoopConstrained(j).draws

\* lines 53-77: the calls on the system and the evaluators
EvaluationTrace ==
  <<"reset_forces", "reset_torques">>
    \o (IF m_potential THEN <<"potential_compute">> ELSE << >>)
    \o (IF m_align THEN <<"align_compute">> ELSE << >>)

\* the state at line 123 of a call that got there
BlockEntry ==
  /\ pc = "periodic"
  /\ i = N
  /\ T = temp /\ B = Sqrt(2 * Mul(m_mu, temp)) /\ sqrt_dt = Sqrt(m_dt)
  /\ sqrt_args = <<2 * Mul(m_mu, temp), m_dt>>
  /\ trace = EvaluationTrace
  /\ P = [j \in Idx |-> LoopConstrained(j).p]
  /\ draws = [j \in Idx |-> LoopDraws(j)]
  /\ calls = [j \in Idx |-> LoopConstrained(j).calls]
  /\ rngPos = LoopStart(N)
  /\ unprojected = {}

\* every state in which the step-by-step specification is at line 123 is
\* the closed form
BlockEntryReached == pc = "periodic" => BlockEntry

MaxExtra == 1      \* full-layout groups hold LayoutSize..LayoutSize+MaxExtra particles

LayoutConfigs ==
  [N : LayoutSize..(LayoutSize + MaxExtra), nematic : BOOLEAN,
   velocity : BOOLEAN, potential : {TRUE}, align : {TRUE}, constrainer : {TRUE},
   v0 : {Scale}, mu : {Scale}, mur : {Scale}, dt : {1}, tau : {5},
   stoch : {Scale}, temp : {0, Scale}, seed : 0..MaxSeed, field : {0, 1}]

InitPeriodic ==
  \E c \in LayoutConfigs :
    /\ N = c.N
    /\ m_nematic = c.nematic /\ m_velocity = c.velocity
    /\ m_potential = c.potential /\ m_align = c.align
    /\ m_constrainer = c.constrainer
    /\ m_v0 = c.v0 /\ m_mu = c.mu /\ m_mur = c.mur /\ m_dt = c.dt
    /\ m_tau = c.tau /\ m_stoch_coeff = c.stoch
    /\ temp = c.temp /\ seed = c.seed /\ field = c.field
    /\ tmpl \in InitTemplates(c.N)
    /\ BlockEntry
    /\ SoftDefault

NextPeriodic ==
  \/ PeriodicUpdate
  \/ UpdateMesh

SpecPeriodic == InitPeriodic /\ [][NextPeriodic]_vars

\* ------------------------------------------------------------- observers
Ops(j) == [k \in 1..Len(calls[j]) |-> calls[j][k].op]
Count(seq, e) == Cardinality({k \in 1..Len(seq) : seq[k] = e})
Processed(j) == calls[j] # << >>
LoopFinished == pc \in {"periodic", "mesh", "done"}
\* number of uniform flip samples a particle consumes per call
FlipCount == IF m_nematic THEN 1 ELSE 0
\* particle j has a draw at slot k of its log with the given use
HasDraw(j, k, use) == k >= 1 /\ Len(draws[j]) >= k /\ draws[j][k].use = use
Flipped1(j) == HasDraw(j, 1, "flip")
Kicked(j) == HasDraw(j, FlipCount + 1, "kick_x")
Rotated(j) == HasDraw(j, Len(draws[j]), "rot")
\* the per-particle update has begun for some particle
UpdateStarted ==
  \E j \in Idx :
    calls[j] # << >> \/ j \in unprojected \/ Len(draws[j]) > FlipCount
\* the fields of a particle that integrate() itself writes
Fields(p) == <<p.n, p.v, p.r, p.omega, p.age>>

\* ------------------------------------------------------------------ claims

\* C1: whenever the per-particle update has begun for any particle, the
\* flip pass has visited every particle of the group (nematic mode) and
\* reset_forces, reset_torques and the configured evaluators have run.
C1_FlipAndForcesBeforeUpdate ==
  UpdateStarted =>
    /\ m_nematic => \A j \in Idx : Len(draws[j]) >= 1 /\ draws[j][1].use = "flip"
    /\ Count(trace, "reset_forces") = 1
    /\ Count(trace, "reset_torques") = 1
    /\ m_potential => Count(trace, "potential_compute") = 1
    /\ m_align => Count(trace, "align_compute") = 1

C1_Witness ==
  /\ pc = "update" /\ i = 1 /\ N >= 2
  /\ m_nematic /\ m_potential /\ m_align /\ m_constrainer
  /\ Processed(0) /\ ~Processed(1)
  /\ draws[1] # << >>

\* C2 (as claimed): with the constraint operator unset, no particle's
\* director, velocity, position, omega or age ever differs from its value
\* at entry of integrate().
C2_NoMutationWhenUnset ==
  ~m_constrainer => \A j \in Idx : Fields(P[j]) = Fields(P0(j))

\* C3 (as claimed): at T(step) = 0 no Gaussian sample is consumed for any
\* particle; only the uniform flip draws advance the stream.
C3_NoGaussianAtZeroT ==
  temp = 0 => \A j \in Idx : \A k \in 1..Len(draws[j]) : draws[j][k].use = "flip"

\* C3 (amended): at T(step) = 0 no Gaussian sample is consumed for the
\* translational kick; every processed particle consumes exactly one
\* Gaussian sample, for its rotation angle, and the stream position is the
\* number of flip draws plus the number of processed particles.
C3_OnlyRotationDrawAtZeroT ==
  temp = 0 =>
    /\ \A j \in Idx :
         /\ \A k \in 1..Len(draws[j]) : draws[j][k].use \in {"flip", "rot"}
         /\ Processed(j) =>
              /\ Len(draws[j]) = FlipCount + 1
              /\ draws[j][FlipCount + 1].use = "rot"
         /\ ~Processed(j) => Len(draws[j]) <= FlipCount /\ ~Rotated(j)
    /\ rngPos = Cardinality({j \in Idx : Flipped1(j)})
                  + Cardinality({j \in Idx : Processed(j)})

C3_Witness ==
  /\ temp = 0 /\ pc = "done" /\ m_nematic /\ N >= 2
  /\ rngPos = 2 * N
  /\ \A j \in Idx : Processed(j)

\* C4 (as claimed): when integrate() has returned, no particle has a
\* position write that was not followed by enforce on that particle.
C4_EveryWriteProjected ==
  pc = "done" => unprojected = {}

\* C5: every processed particle got the constraint calls enforce,
\* project_torque, rotate_director, in this order and once each, followed
\* by rotate_velocity with the same angle iff velocity tracking is on; its
\* omega is mu_r times the torque projected at its enforced position; when
\* the loop has finished every particle is processed.
C5_ConstraintCallOrder ==
  /\ \A j \in Idx :
       Processed(j) =>
         /\ Ops(j) = IF m_velocity
                     THEN <<"enforce", "project_torque", "rotate_director",
                            "rotate_velocity">>
                     ELSE <<"enforce", "project_torque", "rotate_director">>
         /\ m_velocity => calls[j][4].angle = calls[j][3].angle
         /\ calls[j][3].angle =
              Mul(m_dt, P[j].omega)
                + Mul(m_stoch_coeff, gauss_rng(seed, draws[j][Len(draws[j])].pos))
         /\ P[j].omega = Mul(m_mur, P[j].tau[3])
  /\ LoopFinished => \A j \in Idx : Processed(j)

C5_Witness ==
  /\ pc = "done" /\ m_velocity /\ temp > 0 /\ N >= 2
  /\ \A j \in Idx : Len(calls[j]) = 4 /\ P[j].omega # 0 /\ calls[j][4].angle # 0

\* C6 (as claimed): one particle, v0 = 1, mu = 0, T = 0, flat plane,
\* dt = 0.1, director (1,0,0), no rotational noise: the call completes and
\* leaves position (0.1,0,0), velocity (1,0,0) and the director unchanged.
C6_Scenario ==
  /\ N = 1 /\ tmpl[0] = 1 /\ m_v0 = Scale /\ m_mu = 0 /\ temp = 0
  /\ m_dt = 1 /\ m_constrainer /\ ~m_nematic /\ ~m_align /\ m_stoch_coeff = 0
C6_SingleParticleStep ==
  C6_Scenario =>
    /\ ~Crashed
    /\ pc = "done" =>
         /\ P[0].r = <<1, 0, 0>>
         /\ P[0].v = <<Scale, 0, 0>>
         /\ P[0].n = <<Scale, 0, 0>>

\* C7: the flip loop is entered only in nematic mode; with nematic mode off
\* no step before the particle loop changes a director or a velocity and no
\* uniform sample is ever consumed; a flip step consumes one uniform sample
\* for its particle, negates that particle's director exactly when the
\* sample is below m_tau, negates its velocity exactly when it also tracks
\* velocity, and touches no other particle.
C7_FlipExactlyOnDraw ==
  [][ /\ pc = "flip" => m_nematic
      /\ ~m_nematic =>
           /\ \A j \in Idx : \A k \in 1..Len(draws'[j]) : draws'[j][k].use # "flip"
           /\ pc \in {"entry", "reset_forces", "reset_torques", "flip",
                      "potential", "align"} =>
                /\ rngPos' = rngPos
                /\ \A j \in Idx : P'[j].n = P[j].n /\ P'[j].v = P[j].v
      /\ pc = "flip" =>
           /\ rngPos' = rngPos + 1
           /\ draws'[i] = Append(draws[i], [use |-> "flip", pos |-> rngPos])
           /\ P'[i].n = IF drnd(seed, rngPos) < m_tau
                        THEN VNeg(P[i].n) ELSE P[i].n
           /\ P'[i].v = IF drnd(seed, rngPos) < m_tau /\ m_velocity
                        THEN VNeg(P[i].v) ELSE P[i].v
           /\ \A j \in Idx \ {i} : P'[j] = P[j] /\ draws'[j] = draws[j]
    ]_vars

C7_Witness ==
  /\ pc = "potential" /\ m_nematic /\ ~m_velocity /\ N >= 2
  /\ \E j \in Idx, k \in Idx :
       /\ P[j].n = VNeg(P0(j).n) /\ P[j].v = P0(j).v /\ P0(j).v # Zero3
       /\ P[k].n = P0(k).n

\* C8: an evaluator runs only after reset_forces and reset_torques, each
\* evaluator runs at most once and never if absent; once the per-particle
\* update has begun each configured evaluator has run exactly once and every
\* force and torque is exactly what the evaluators wrote on zeroed
\* accumulators.
C8_ResetThenEvaluateOnce ==
  /\ \A k \in 1..Len(trace) :
       trace[k] \in {"potential_compute", "align_compute"} =>
         /\ \E a \in 1..(k - 1) : trace[a] = "reset_forces"
         /\ \E b \in 1..(k - 1) : trace[b] = "reset_torques"
  /\ Count(trace, "potential_compute") <= (IF m_potential THEN 1 ELSE 0)
  /\ Count(trace, "align_compute") <= (IF m_align THEN 1 ELSE 0)
  /\ UpdateStarted =>
       /\ Count(trace, "potential_compute") = (IF m_potential THEN 1 ELSE 0)
       /\ Count(trace, "align_compute") = (IF m_align THEN 1 ELSE 0)
       /\ \A j \in Idx :
            /\ P[j].f = IF m_potential THEN FieldForce(field, j) ELSE Zero3
            /\ P[j].tau = IF m_align THEN FieldTorque(field, j) ELSE Zero3

C8_Witness ==
  /\ pc = "done" /\ m_potential /\ ~m_align
  /\ trace = <<"reset_forces", "reset_torques", "potential_compute", "update_mesh">>
  /\ \E j \in Idx : P0(j).f # Zero3 /\ P0(j).tau # Zero3

\* C9 (as claimed): with a negative temperature no translational noise is
\* drawn and no negative argument is handed to a square root.
C9_NegativeTemperature ==
  temp < 0 =>
    /\ \A j \in Idx : ~Kicked(j)
    /\ \A k \in 1..Len(sqrt_args) : sqrt_args[k] >= 0

\* C10: with T(step) > 0 every processed particle has consumed, after its
\* one uniform flip sample (nematic mode only), three Gaussian samples for
\* the x, y, z kick and then one for the rotation; the flip sample of the
\* j-th particle is stream position j and its four Gaussian samples are the
\* next four positions after those of particle j-1, so no position is used
\* twice and none is skipped; the stream position is the number of samples
\* logged; when the loop has finished every particle is processed.
C10_DrawAccounting ==
  temp > 0 =>
    /\ \A j \in Idx :
         LET d == draws[j]
             first == FlipCount * N + 4 * j
         IN  /\ Len(d) >= 1 /\ m_nematic => d[1] = [use |-> "flip", pos |-> j]
             /\ ~m_nematic => ~Flipped1(j)
             /\ Len(d) > FlipCount =>
                  /\ Len(d) >= FlipCount + 3
                  /\ d[FlipCount + 1] = [use |-> "kick_x", pos |-> first]
                  /\ d[FlipCount + 2] = [use |-> "kick_y", pos |-> first + 1]
                  /\ d[FlipCount + 3] = [use |-> "kick_z", pos |-> first + 2]
             /\ Processed(j) =>
                  /\ Len(d) = FlipCount + 4
                  /\ d[FlipCount + 4] = [use |-> "rot", pos |-> first + 3]
             /\ ~Processed(j) => Len(d) <= FlipCount + 3
    /\ rngPos = Cardinality({j \in Idx : Flipped1(j)})
                  + 3 * Cardinality({j \in Idx : Kicked(j)})
                  + Cardinality({j \in Idx : Processed(j)})
    /\ LoopFinished => \A j \in Idx : Processed(j)

C10_Witness ==
  /\ pc = "done" /\ temp > 0 /\ m_nematic /\ N >= 2
  /\ rngPos = 5 * N
  /\ \A j \in Idx : Len(draws[j]) = 5

\* C11 (as claimed): every index that subscripts the particle list during
\* integrate() lies in 0..N-1: the indices of the flip loop and of the
\* particle loop, and, when the call is at the periodic block, the indices
\* of its scans, of its boundary look-ups and of its ghost copies.
C11_SubscriptsInRange ==
  /\ (pc \in {"flip", "update"} /\ i < N) => i \in Idx
  /\ pc = "periodic" => SubscriptsInRange

\* C12 (as claimed): after a call of set_pair_parameters with type_1 and
\* type_2 given, the stored k of the pair is the supplied k (the global k
\* if none is supplied), the stored a is the supplied a (the global a if
\* none is supplied), both also for the pair in the other order; a call
\* with type_1 or type_2 missing throws runtime_error and leaves the stored
\* pair parameters and the has-pair-parameters flag as they were.
C12_PairParametersStored ==
  soft_pc # "constructed" =>
    IF {"type_1", "type_2"} \subseteq DOMAIN pair_param
    THEN LET t1 == LexicalCastInt(pair_param["type_1"]) - 1
             t2 == LexicalCastInt(pair_param["type_2"]) - 1
             k == IF "k" \in DOMAIN pair_param
                  THEN LexicalCastDouble(pair_param["k"]) ELSE m_k
             a == IF "a" \in DOMAIN pair_param
                  THEN LexicalCastDouble(pair_param["a"]) ELSE m_a
         IN  /\ soft_pc = "returned"
             /\ m_pair_params[t1][t2] = [k |-> k, a |-> a]
             /\ m_pair_params[t2][t1] = [k |-> k, a |-> a]
    ELSE /\ soft_pc = "runtime_error"
         /\ m_pair_params = pair_params_before
         /\ m_has_pair_params = has_before

====
